---------------------------- MODULE Spec2Model ----------------------------
(***************************************************************************)
(* Model of the detection-to-row extraction pipeline of Medibill:          *)
(* src/utils/rowGrouping.ts (class normaliser, anchor selector, field      *)
(* classifier, row-captain grouping) and src/utils/billExtraction.ts       *)
(* (metadata extractor, medicine filter, bill data assembler).             *)
(*                                                                         *)
(* Representation.                                                         *)
(*  - A JavaScript string that the code inspects character by character    *)
(*    (a class label) is a sequence of one-character strings.  Records     *)
(*    carry a label as a TLA+ string key; Chars[key] is its text.          *)
(*  - The JavaScript values undefined and null are the reserved keys       *)
(*    Undefined and Null.  An optional number is <<>> (absent) or <<n>>.   *)
(*  - Lengths are in half pixels, so that y + height/2 stays an integer:   *)
(*    getVerticalCenter is 2*y + height and the 5 pixel tie window is      *)
(*    2*TieWindow.  Confidences are counted in steps of 0.005, so the      *)
(*    0.01 window of the candidate sort is ConfWindow = 2 steps.           *)
(*  - Array.prototype.sort is stable and, for a comparator that is not a   *)
(*    consistent comparison function, leaves the order implementation      *)
(*    defined (ECMA-262 23.1.3.30): SortOutcomes is the set of orders a    *)
(*    conforming engine may produce.                                       *)
(***************************************************************************)
EXTENDS Integers, Sequences, FiniteSets, TLC

VARIABLES detections, pc, entry, predictions, threw, anchors, groups,
          winners, rows, metadata, medicines, totalMedicines, scan, norm,
          classified, shop_details, bills, calls, heap

\* the database tables and the createBill calls under way
billing == <<shop_details, bills, calls>>

vars == <<detections, pc, entry, predictions, threw, anchors, groups,
          winners, rows, metadata, medicines, totalMedicines, scan, norm,
          classified, billing, heap>>

(***************************************************************************)
(* Bounds and program constants                                            *)
(***************************************************************************)
\* longest detection list handed to the pipeline
MaxLen == 3

\* longest class name handed to normalizeClassName
MaxText == 5

\* number of createBill calls under way at the same time
MaxClients == 3

\* rowGrouping.ts:116  Math.abs(distance - minDistance) < 5   (pixels)
TieWindow == 5

\* rowGrouping.ts:280  Math.abs(confDiff) > 0.01   (in steps of 0.005)
ConfWindow == 2

Undefined == "<undefined>"
Null == "<null>"

(***************************************************************************)
(* Strings                                                                 *)
(***************************************************************************)
\* the text of every class label the model feeds to the pipeline
Chars ==
  [ l \in { "Med Name", "Medicine 1", "Medicine 2", "MEDICINE", "Quantity",
            "  QUANTITY ", "qty", "Amount", "HSN Code", "hsn  code",
            "Batch Exp", "The MedName", "Customer Name", "Total", "",
            "Patient Name", "Doctor Name", "Phone", "Medicine Name",
            "Unit Price", "med", "item", "ITEM", "Product", "medname", "Meds",
            "items", "Premed", " med  name", "Total Qty", "QTY", "Price",
            "hsncode", "BatchExp" } |->
    CASE l = "Med Name"      -> <<"M", "e", "d", " ", "N", "a", "m", "e">>
      [] l = "Medicine 1"    -> <<"M", "e", "d", "i", "c", "i", "n", "e", " ", "1">>
      [] l = "Medicine 2"    -> <<"M", "e", "d", "i", "c", "i", "n", "e", " ", "2">>
      [] l = "MEDICINE"      -> <<"M", "E", "D", "I", "C", "I", "N", "E">>
      [] l = "Quantity"      -> <<"Q", "u", "a", "n", "t", "i", "t", "y">>
      [] l = "  QUANTITY "   -> <<" ", " ", "Q", "U", "A", "N", "T", "I", "T", "Y", " ">>
      [] l = "qty"           -> <<"q", "t", "y">>
      [] l = "Amount"        -> <<"A", "m", "o", "u", "n", "t">>
      [] l = "HSN Code"      -> <<"H", "S", "N", " ", "C", "o", "d", "e">>
      [] l = "hsn  code"     -> <<"h", "s", "n", " ", " ", "c", "o", "d", "e">>
      [] l = "Batch Exp"     -> <<"B", "a", "t", "c", "h", " ", "E", "x", "p">>
      [] l = "The MedName"   -> <<"T", "h", "e", " ", "M", "e", "d", "N", "a", "m", "e">>
      [] l = "Customer Name" -> <<"C", "u", "s", "t", "o", "m", "e", "r", " ", "N", "a", "m", "e">>
      [] l = "Total"         -> <<"T", "o", "t", "a", "l">>
      [] l = "Patient Name"  -> <<"P", "a", "t", "i", "e", "n", "t", " ", "N", "a", "m", "e">>
      [] l = "Doctor Name"   -> <<"D", "o", "c", "t", "o", "r", " ", "N", "a", "m", "e">>
      [] l = "Phone"         -> <<"P", "h", "o", "n", "e">>
      [] l = "Medicine Name" -> <<"M", "e", "d", "i", "c", "i", "n", "e", " ", "N", "a", "m", "e">>
      [] l = "Unit Price"    -> <<"U", "n", "i", "t", " ", "P", "r", "i", "c", "e">>
      [] l = "med"           -> <<"m", "e", "d">>
      [] l = "item"          -> <<"i", "t", "e", "m">>
      [] l = "ITEM"          -> <<"I", "T", "E", "M">>
      [] l = "Product"       -> <<"P", "r", "o", "d", "u", "c", "t">>
      [] l = "medname"       -> <<"m", "e", "d", "n", "a", "m", "e">>
      [] l = "Meds"          -> <<"M", "e", "d", "s">>
      [] l = "items"         -> <<"i", "t", "e", "m", "s">>
      [] l = "Premed"        -> <<"P", "r", "e", "m", "e", "d">>
      [] l = " med  name"    -> <<" ", "m", "e", "d", " ", " ", "n", "a", "m", "e">>
      [] l = "Total Qty"     -> <<"T", "o", "t", "a", "l", " ", "Q", "t", "y">>
      [] l = "QTY"           -> <<"Q", "T", "Y">>
      [] l = "Price"         -> <<"P", "r", "i", "c", "e">>
      [] l = "hsncode"       -> <<"h", "s", "n", "c", "o", "d", "e">>
      [] l = "BatchExp"      -> <<"B", "a", "t", "c", "h", "E", "x", "p">>
      [] OTHER               -> <<>> ]

Labels == DOMAIN Chars

\* String.prototype.toLowerCase on the letters the labels use
LowerOf ==
  [ c \in { "A", "B", "C", "D", "E", "H", "I", "M", "N", "O", "P", "Q", "S",
            "T", "U", "X", "Y" } |->
    CASE c = "A" -> "a" [] c = "B" -> "b" [] c = "C" -> "c" [] c = "D" -> "d"
      [] c = "E" -> "e" [] c = "H" -> "h" [] c = "I" -> "i" [] c = "M" -> "m"
      [] c = "N" -> "n" [] c = "O" -> "o" [] c = "Q" -> "q" [] c = "S" -> "s"
      [] c = "P" -> "p"
      [] c = "T" -> "t" [] c = "U" -> "u" [] c = "X" -> "x" [] c = "Y" -> "y" ]

\* the characters the regular expression class \s and trim() treat as space
IsSpace(c) == c \in { " ", "\t", "\n" }

RECURSIVE TrimStart(_)
TrimStart(s) ==
  IF s = <<>> THEN <<>>
  ELSE IF IsSpace(Head(s)) THEN TrimStart(Tail(s)) ELSE s

RECURSIVE TrimEnd(_)
TrimEnd(s) ==
  IF s = <<>> THEN <<>>
  ELSE IF IsSpace(s[Len(s)]) THEN TrimEnd(SubSeq(s, 1, Len(s) - 1)) ELSE s

\* String.prototype.trim
Trim(s) == TrimEnd(TrimStart(s))

\* String.prototype.toLowerCase
ToLowerCase(s) ==
  [ i \in 1..Len(s) |-> IF s[i] \in DOMAIN LowerOf THEN LowerOf[s[i]] ELSE s[i] ]

\* mutation of CollapseSpaces: s.replace(/\s\s/g, ' '), pairs of white space
RECURSIVE CollapseSpacesPairwise(_)
CollapseSpacesPairwise(s) ==
  IF s = <<>> THEN <<>>
  ELSE IF Len(s) >= 2 /\ IsSpace(s[1]) /\ IsSpace(s[2])
    THEN << " " >> \o CollapseSpacesPairwise(Tail(Tail(s)))
  ELSE << Head(s) >> \o CollapseSpacesPairwise(Tail(s))

\* s.replace(/\s+/g, ' '): every maximal run of white space becomes one space
RECURSIVE CollapseSpaces(_)
CollapseSpaces(s) ==
  IF s = <<>> THEN <<>>
  ELSE IF IsSpace(Head(s)) THEN << " " >> \o CollapseSpaces(TrimStart(s))
  ELSE << Head(s) >> \o CollapseSpaces(Tail(s))

\* String.prototype.includes
Includes(s, sub) ==
  \E i \in 0..(Len(s) - Len(sub)) : SubSeq(s, i + 1, i + Len(sub)) = sub

\* String.prototype.startsWith
StartsWith(s, sub) ==
  Len(sub) <= Len(s) /\ SubSeq(s, 1, Len(sub)) = sub

(***************************************************************************)
(* rowGrouping.ts: class normaliser, anchor selector, field classifier     *)
(***************************************************************************)
normalizeClassName(className) == CollapseSpaces(ToLowerCase(Trim(className)))

\* mutation of isAnchorClass: the label is compared without toLowerCase
isAnchorClassCaseSensitive(className) ==
  LET normalized == CollapseSpaces(Trim(Chars[className]))
  IN  \/ normalized \in { <<"m", "e", "d", " ", "n", "a", "m", "e">>, <<"m", "e", "d", "n", "a", "m", "e">>,
                          <<"m", "e", "d", "i", "c", "i", "n", "e", " ", "n", "a", "m", "e">>, <<"m", "e", "d", "i", "c", "i", "n", "e">>,
                          <<"m", "e", "d">>, <<"i", "t", "e", "m">>, <<"p", "r", "o", "d", "u", "c", "t">> }
      \/ Includes(normalized, <<"m", "e", "d", " ", "n", "a", "m", "e">>)
      \/ Includes(normalized, <<"m", "e", "d", "i", "c", "i", "n", "e">>)
      \/ StartsWith(normalized, <<"m", "e", "d">>)

isAnchorClass(className) ==
  LET normalized == normalizeClassName(Chars[className])
  IN  \/ normalized = <<"m", "e", "d", " ", "n", "a", "m", "e">>
      \/ normalized = <<"m", "e", "d", "n", "a", "m", "e">>
      \/ normalized = <<"m", "e", "d", "i", "c", "i", "n", "e", " ", "n", "a", "m", "e">>
      \/ normalized = <<"m", "e", "d", "i", "c", "i", "n", "e">>
      \/ normalized = <<"m", "e", "d">>
      \/ normalized = <<"i", "t", "e", "m">>
      \/ normalized = <<"p", "r", "o", "d", "u", "c", "t">>
      \/ Includes(normalized, <<"m", "e", "d", " ", "n", "a", "m", "e">>)
      \/ Includes(normalized, <<"m", "e", "d", "i", "c", "i", "n", "e">>)
      \/ StartsWith(normalized, <<"m", "e", "d">>)

\* Object.entries(FIELD_MAPPING), in insertion order
FIELD_MAPPING ==
  << << <<"M", "e", "d", " ", "N", "a", "m", "e">>, "medName" >>,
     << <<"B", "a", "t", "c", "h", " ", "E", "x", "p">>, "batchExp" >>,
     << <<"Q", "u", "a", "n", "t", "i", "t", "y">>, "quantity" >>,
     << <<"H", "S", "N", " ", "C", "o", "d", "e">>, "hsnCode" >>,
     << <<"A", "m", "o", "u", "n", "t">>, "amount" >> >>

getFieldName(className) ==
  LET normalized == normalizeClassName(Chars[className])
      exact == { i \in 1..Len(FIELD_MAPPING) :
                   normalizeClassName(FIELD_MAPPING[i][1]) = normalized }
  IN  IF exact # {}
        THEN FIELD_MAPPING[CHOOSE i \in exact : \A j \in exact : i <= j][2]
      ELSE IF \/ Includes(normalized, <<"m", "e", "d", " ", "n", "a", "m", "e">>)
              \/ Includes(normalized, <<"m", "e", "d", "n", "a", "m", "e">>)
              \/ Includes(normalized, <<"m", "e", "d", "i", "c", "i", "n", "e", " ", "n", "a", "m", "e">>)
        THEN "medName"
      ELSE IF \/ Includes(normalized, <<"b", "a", "t", "c", "h", " ", "e", "x", "p">>)
              \/ Includes(normalized, <<"b", "a", "t", "c", "h", "e", "x", "p">>)
        THEN "batchExp"
      ELSE IF Includes(normalized, <<"q", "u", "a", "n", "t", "i", "t", "y">>) \/ normalized = <<"q", "t", "y">>
        THEN "quantity"
      ELSE IF \/ Includes(normalized, <<"h", "s", "n", " ", "c", "o", "d", "e">>)
              \/ Includes(normalized, <<"h", "s", "n", "c", "o", "d", "e">>)
        THEN "hsnCode"
      ELSE IF Includes(normalized, <<"a", "m", "o", "u", "n", "t">>) \/ Includes(normalized, <<"p", "r", "i", "c", "e">>)
        THEN "amount"
      ELSE Null

\* the two classifiers tabulated over the labels in use
anchorLabels == { l \in Labels : isAnchorClass(l) }

fieldOfLabel == [ l \in Labels |-> getFieldName(l) ]

(***************************************************************************)
(* Array.prototype.sort                                                    *)
(***************************************************************************)
Abs(n) == IF n < 0 THEN -n ELSE n

\* the orders of n elements
Perms(n) ==
  { p \in [1..n -> 1..n] : \A i, j \in 1..n : p[i] = p[j] => i = j }

\* ECMA-262: the comparator whose results on the elements are c, with
\* c[i][j] = comparefn(s[i], s[j]), is a consistent comparison function
ConsistentComparator(c) ==
  LET I == DOMAIN c
      lt(i, j) == c[i][j] < 0
      eq(i, j) == c[i][j] = 0
  IN  /\ \A i \in I : eq(i, i)
      /\ \A i, j \in I : (eq(i, j) => eq(j, i)) /\ (lt(i, j) => ~lt(j, i))
      /\ \A i, j \in I : lt(i, j) \/ eq(i, j) \/ lt(j, i)
      /\ \A i, j, k \in I : (eq(i, j) /\ eq(j, k)) => eq(i, k)
      /\ \A i, j, k \in I : (lt(i, j) /\ lt(j, k)) => lt(i, k)

\* the results s.sort(comparefn) may have, c[i][j] being comparefn(s[i], s[j]):
\* the stable order when the comparator is consistent, any order of the
\* elements otherwise
SortOutcomes(s, c) ==
  LET n == Len(s)
      apply(p) == [ i \in 1..n |-> s[p[i]] ]
      stable(p) == \A i, j \in 1..n :
                     i < j => \/ c[p[i]][p[j]] < 0
                              \/ c[p[i]][p[j]] = 0 /\ p[i] < p[j]
  IN  IF n <= 1 THEN { s }
      ELSE IF ConsistentComparator(c)
        THEN { apply(p) : p \in { q \in Perms(n) : stable(q) } }
      ELSE { apply(p) : p \in Perms(n) }

(***************************************************************************)
(* rowGrouping.ts: geometry and nearest anchor                             *)
(***************************************************************************)
\* bbox.y + bbox.height / 2, in half pixels
getVerticalCenter(bbox) == 2 * bbox.y + bbox.height

\* mutation of withinTieWindow: the window includes a difference of 5 pixels
withinTieWindowInclusive(distance, minDistance) ==
  Abs(distance - minDistance) <= 2 * TieWindow

\* mutation of withinTieWindow: a window of 5 on lengths counted in half pixels
\* twice over, 10 pixels
withinTieWindowWide(distance, minDistance) ==
  Abs(distance - minDistance) < 4 * TieWindow

\* Math.abs(distance - minDistance) < 5, distances in half pixels
withinTieWindow(distance, minDistance) ==
  Abs(distance - minDistance) < 2 * TieWindow

\* mutation of nearestStep: within the window the anchor below is preferred
nearestStepPreferBelow(predCenter, anchorList, i, st) ==
  LET anchorCenter == getVerticalCenter(anchorList[i].bbox)
      distance == Abs(predCenter - anchorCenter)
      taken == [ nearest |-> i, minDistance |-> distance,
                 nearestAnchorY |-> anchorCenter ]
  IN  IF st.nearest # 0 /\ withinTieWindow(distance, st.minDistance)
        THEN IF anchorCenter > st.nearestAnchorY THEN taken ELSE st
      ELSE IF st.nearest = 0 \/ distance < st.minDistance THEN taken
      ELSE st

\* one turn of the loop of findNearestAnchor over anchors[i]; st.nearest = 0
\* stands for nearestAnchor = null with minDistance = nearestAnchorY = Infinity
nearestStep(predCenter, anchorList, i, st) ==
  LET anchorCenter == getVerticalCenter(anchorList[i].bbox)
      distance == Abs(predCenter - anchorCenter)
      taken == [ nearest |-> i, minDistance |-> distance,
                 nearestAnchorY |-> anchorCenter ]
  IN  IF st.nearest # 0 /\ withinTieWindow(distance, st.minDistance)
        THEN IF anchorCenter < st.nearestAnchorY THEN taken ELSE st
      ELSE IF st.nearest = 0 \/ distance < st.minDistance THEN taken
      ELSE st

RECURSIVE nearestScan(_, _, _, _)
nearestScan(predCenter, anchorList, i, st) ==
  IF i > Len(anchorList) THEN st
  ELSE nearestScan(predCenter, anchorList, i + 1,
                   nearestStep(predCenter, anchorList, i, st))

\* the index in anchorList of the anchor returned, 0 for null
findNearestAnchor(prediction, anchorList) ==
  IF Len(anchorList) = 0 THEN 0
  ELSE nearestScan(getVerticalCenter(prediction.bbox), anchorList, 1,
                   [ nearest |-> 0, minDistance |-> 0, nearestAnchorY |-> 0 ]).nearest

(***************************************************************************)
(* rowGrouping.ts: groupByRowCaptain                                       *)
(***************************************************************************)
fieldPriority == << "medName", "batchExp", "quantity", "hsnCode", "amount" >>

\* !prediction.class : undefined and the empty string are both skipped
hasClass(prediction) == prediction.class # Undefined /\ prediction.class # ""

\* the elements of s at the positions in I, in order
RECURSIVE SelectAt(_, _)
SelectAt(s, I) ==
  IF s = << >> THEN << >>
  ELSE LET front == SelectAt(SubSeq(s, 1, Len(s) - 1), I)
       IN  IF Len(s) \in I THEN Append(front, s[Len(s)]) ELSE front

\* mutation of partitionAnchors: one anchor per class label
partitionAnchorsOnePerClass(preds) ==
  SelectAt(preds, { i \in 1..Len(preds) :
                      /\ hasClass(preds[i])
                      /\ preds[i].class \in anchorLabels
                      /\ \A j \in 1..(i - 1) : preds[j].class # preds[i].class })

\* the anchors array before it is sorted (input order)
partitionAnchors(preds) ==
  LET Test(p) == hasClass(p) /\ p.class \in anchorLabels
  IN  SelectSeq(preds, Test)

partitionNonAnchors(preds) ==
  LET Test(p) == hasClass(p) /\ p.class \notin anchorLabels
  IN  SelectSeq(preds, Test)

\* anchors.sort((a, b) => aCenter - bCenter)
compareAnchors(a, b) == getVerticalCenter(a.bbox) - getVerticalCenter(b.bbox)

\* `Medicine ${index + 1}` ; i is the 1-based position
placeholderName(i) == "Medicine " \o ToString(i)

seedRow(i) ==
  [ medName |-> placeholderName(i), batchExp |-> Null, quantity |-> Null,
    hsnCode |-> Null, amount |-> Null ]

\* predictionsByAnchor: the non anchors handed to each sorted anchor
groupsOf(sortedAnchors, nonAnchors) ==
  [ i \in 1..Len(sortedAnchors) |->
      LET Test(p) == findNearestAnchor(p, sortedAnchors) = i
      IN  SelectSeq(nonAnchors, Test) ]

\* mutation of fieldPredictions: an unclassified prediction is a candidate of
\* every slot
fieldPredictionsWithUnclassified(group, fieldName) ==
  LET Test(p) == fieldOfLabel[p.class] = fieldName \/ fieldOfLabel[p.class] = Null
  IN  SelectSeq(group, Test)

\* predictionsByField.get(fieldName)
fieldPredictions(group, fieldName) ==
  LET Test(p) == fieldOfLabel[p.class] = fieldName
  IN  SelectSeq(group, Test)

\* mutation of compareCandidates: confidence decides from a difference of 0.01
compareCandidatesFromWindow(a, b) ==
  LET confDiff == b.confidence - a.confidence
  IN  IF Abs(confDiff) >= ConfWindow THEN confDiff ELSE a.bbox.x - b.bbox.x

\* the comparator of fieldPredictions.sort
compareCandidates(a, b) ==
  LET confDiff == b.confidence - a.confidence
  IN  IF Abs(confDiff) > ConfWindow THEN confDiff ELSE a.bbox.x - b.bbox.x

\* mutation of skipField: the medicine name is filled like the other fields
skipNoField(fieldName) == FALSE

\* if (fieldName === 'medName') continue
skipField(fieldName) == fieldName = "medName"

\* if (prediction.value)
hasValue(prediction) == prediction.value # Undefined /\ prediction.value # ""

\* the value written to row[fieldName] for the winning prediction
fieldValue(fieldName, prediction) ==
  IF hasValue(prediction) THEN prediction.value
  ELSE IF fieldName = "quantity" THEN "1"
  ELSE IF fieldName = "amount" THEN "0"
  ELSE IF fieldName = "hsnCode" THEN "3004"
  ELSE prediction.class

\* fieldPredictions[0] after the sort: << >> when the field is skipped or has
\* no candidate, << p >> for each winner the sort may put first
winnerChoices(group, fieldName) ==
  LET cands == fieldPredictions(group, fieldName)
  IN  IF skipField(fieldName) \/ Len(cands) = 0 THEN { << >> }
      ELSE { << s[1] >> : s \in SortOutcomes(cands,
               [ i \in DOMAIN cands |-> [ j \in DOMAIN cands |->
                   compareCandidates(cands[i], cands[j]) ] ]) }

\* the winners one row may get, one per field
rowWinners(group) ==
  { [ medName |-> m, batchExp |-> b, quantity |-> q, hsnCode |-> h, amount |-> a ] :
      m \in winnerChoices(group, "medName"),
      b \in winnerChoices(group, "batchExp"),
      q \in winnerChoices(group, "quantity"),
      h \in winnerChoices(group, "hsnCode"),
      a \in winnerChoices(group, "amount") }

\* the row of sorted anchor i once its winners are written
filledRow(i, win) ==
  [ f \in DOMAIN win |->
      IF win[f] = << >> THEN seedRow(i)[f] ELSE fieldValue(f, win[f][1]) ]

RECURSIVE winnerTables(_, _)
\* every choice of winners for rows i..Len(grps)
winnerTables(grps, i) ==
  IF i > Len(grps) THEN { << >> }
  ELSE { << w >> \o rest : w \in rowWinners(grps[i]),
                           rest \in winnerTables(grps, i + 1) }

\* the comparator of the closing rows.sort: each row is looked up among the
\* anchors by anchor.class === row.medName
compareRows(a, b, sortedAnchors) ==
  LET found(r) == { i \in 1..Len(sortedAnchors) : sortedAnchors[i].class = r.medName }
      first(S) == CHOOSE i \in S : \A j \in S : i <= j
  IN  IF found(a) = {} \/ found(b) = {} THEN 0
      ELSE getVerticalCenter(sortedAnchors[first(found(a))].bbox)
           - getVerticalCenter(sortedAnchors[first(found(b))].bbox)

\* rows.sort(...) of the return statement
sortRows(rowList, sortedAnchors) ==
  SortOutcomes(rowList,
    [ i \in DOMAIN rowList |-> [ j \in DOMAIN rowList |->
        compareRows(rowList[i], rowList[j], sortedAnchors) ] ])

\* the single row of the zero anchor path: the first prediction classified to
\* a slot writes its raw class there
fallbackRow(preds) ==
  [ f \in { fieldPriority[k] : k \in 1..Len(fieldPriority) } |->
      LET hits == { i \in 1..Len(preds) : fieldOfLabel[preds[i].class] = f }
      IN  IF hits = {} THEN Null
          ELSE preds[CHOOSE i \in hits : \A j \in hits : i <= j].class ]

\* getFieldName(prediction.class) calls undefined.trim() : a TypeError
fallbackThrows(preds) == \E i \in 1..Len(preds) : preds[i].class = Undefined

GroupResult(t, a, g, w, r) ==
  [ threw |-> t, anchors |-> a, groups |-> g, winners |-> w, rows |-> r ]

\* anchors.sort(...): the anchors in ascending vertical centre
sortAnchors(anchorList) ==
  SortOutcomes(anchorList,
    [ i \in DOMAIN anchorList |-> [ j \in DOMAIN anchorList |->
        compareAnchors(anchorList[i], anchorList[j]) ] ])

\* mutation of groupByRowCaptain: no early return on an empty list
groupByRowCaptainWithoutEmptyCheck(preds) ==
  IF Len(partitionAnchors(preds)) = 0
    THEN IF fallbackThrows(preds)
           THEN { GroupResult(TRUE, << >>, << >>, << >>, << >>) }
         ELSE { GroupResult(FALSE, << >>, << >>, << >>, << fallbackRow(preds) >>) }
  ELSE UNION {
         LET grps == groupsOf(sa, partitionNonAnchors(preds))
         IN  UNION {
               { GroupResult(FALSE, sa, grps, wt, sorted) :
                   sorted \in sortRows([ i \in 1..Len(sa) |-> filledRow(i, wt[i]) ], sa) } :
               wt \in winnerTables(grps, 1) } :
         sa \in sortAnchors(partitionAnchors(preds)) }

\* every result groupByRowCaptain(preds) may have
groupByRowCaptain(preds) ==
  IF Len(preds) = 0 THEN { GroupResult(FALSE, << >>, << >>, << >>, << >>) }
  ELSE IF Len(partitionAnchors(preds)) = 0
    THEN IF fallbackThrows(preds)
           THEN { GroupResult(TRUE, << >>, << >>, << >>, << >>) }
         ELSE { GroupResult(FALSE, << >>, << >>, << >>, << fallbackRow(preds) >>) }
  ELSE UNION {
         LET grps == groupsOf(sa, partitionNonAnchors(preds))
         IN  UNION {
               { GroupResult(FALSE, sa, grps, wt, sorted) :
                   sorted \in sortRows([ i \in 1..Len(sa) |-> filledRow(i, wt[i]) ], sa) } :
               wt \in winnerTables(grps, 1) } :
         sa \in sortAnchors(partitionAnchors(preds)) }

\* mutation of convertToBboxFormat: the value is not copied
convertToBboxFormatWithoutValue(preds) ==
  [ i \in 1..Len(preds) |->
      [ class |-> preds[i].class,
        bbox |-> [ x |-> preds[i].x, y |-> preds[i].y,
                   width |-> IF preds[i].width = << >> THEN 0 ELSE preds[i].width[1],
                   height |-> IF preds[i].height = << >> THEN 0 ELSE preds[i].height[1] ],
        confidence |-> IF preds[i].confidence = << >> THEN 0 ELSE preds[i].confidence[1],
        value |-> Undefined ] ]

\* mutation of convertToBboxFormat: width and height change places
convertToBboxFormatSwapped(preds) ==
  [ i \in 1..Len(preds) |->
      [ class |-> preds[i].class,
        bbox |-> [ x |-> preds[i].x, y |-> preds[i].y,
                   width |-> IF preds[i].height = << >> THEN 0 ELSE preds[i].height[1],
                   height |-> IF preds[i].width = << >> THEN 0 ELSE preds[i].width[1] ],
        confidence |-> IF preds[i].confidence = << >> THEN 0 ELSE preds[i].confidence[1],
        value |-> preds[i].value ] ]

\* pred.width || 0 for an optional number
orZero(opt) == IF opt = << >> THEN 0 ELSE opt[1]

convertToBboxFormat(preds) ==
  [ i \in 1..Len(preds) |->
      [ class |-> preds[i].class,
        bbox |-> [ x |-> preds[i].x, y |-> preds[i].y,
                   width |-> orZero(preds[i].width),
                   height |-> orZero(preds[i].height) ],
        confidence |-> orZero(preds[i].confidence),
        value |-> preds[i].value ] ]

(***************************************************************************)
(* billExtraction.ts                                                       *)
(***************************************************************************)
metadataFields ==
  << "customerName", "customerPhone", "customerAddress", "billNumber",
     "billDate", "doctorName" >>

METADATA_CLASSES ==
  [ customerName    |-> { <<"c", "u", "s", "t", "o", "m", "e", "r", " ", "n", "a", "m", "e">>, <<"c", "u", "s", "t", "o", "m", "e", "r">>, <<"n", "a", "m", "e">>,
                          <<"p", "a", "t", "i", "e", "n", "t", " ", "n", "a", "m", "e">>, <<"p", "a", "t", "i", "e", "n", "t">> },
    customerPhone   |-> { <<"p", "h", "o", "n", "e">>, <<"m", "o", "b", "i", "l", "e">>, <<"c", "o", "n", "t", "a", "c", "t">>, <<"p", "h", "o", "n", "e", " ", "n", "u", "m", "b", "e", "r">>,
                          <<"m", "o", "b", "i", "l", "e", " ", "n", "u", "m", "b", "e", "r">> },
    customerAddress |-> { <<"a", "d", "d", "r", "e", "s", "s">>, <<"l", "o", "c", "a", "t", "i", "o", "n">>, <<"r", "e", "s", "i", "d", "e", "n", "c", "e">> },
    billNumber      |-> { <<"b", "i", "l", "l", " ", "n", "u", "m", "b", "e", "r">>, <<"b", "i", "l", "l", " ", "n", "o">>, <<"i", "n", "v", "o", "i", "c", "e", " ", "n", "u", "m", "b", "e", "r">>,
                          <<"i", "n", "v", "o", "i", "c", "e", " ", "n", "o">>, <<"b", "i", "l", "l", " ", "n", "o", ".">> },
    billDate        |-> { <<"d", "a", "t", "e">>, <<"b", "i", "l", "l", " ", "d", "a", "t", "e">>, <<"i", "n", "v", "o", "i", "c", "e", " ", "d", "a", "t", "e">>, <<"d", "a", "t", "e", "d">> },
    doctorName      |-> { <<"d", "o", "c", "t", "o", "r">>, <<"d", "o", "c", "t", "o", "r", " ", "n", "a", "m", "e">>, <<"p", "r", "e", "s", "c", "r", "i", "b", "e", "d", " ", "b", "y">>, <<"d", "r", ".">> } ]

\* the copy of normalizeClassName in billExtraction.ts
normalizeClassNameBill(className) == CollapseSpaces(ToLowerCase(Trim(className)))

matchesMetadataField(className, field) ==
  LET normalized == normalizeClassNameBill(Chars[className])
  IN  \E pattern \in METADATA_CLASSES[field] : Includes(normalized, pattern)

\* prediction.class || ''
classOrEmpty(prediction) ==
  IF prediction.class = Undefined THEN "" ELSE prediction.class

\* the five line item substrings tested by extractMetadata and by
\* filterMedicinePredictions
isMedicineRelated(className) ==
  LET normalized == normalizeClassNameBill(Chars[className])
  IN  \/ Includes(normalized, <<"m", "e", "d", " ", "n", "a", "m", "e">>)
      \/ Includes(normalized, <<"b", "a", "t", "c", "h", " ", "e", "x", "p">>)
      \/ Includes(normalized, <<"q", "u", "a", "n", "t", "i", "t", "y">>)
      \/ Includes(normalized, <<"h", "s", "n", " ", "c", "o", "d", "e">>)
      \/ Includes(normalized, <<"a", "m", "o", "u", "n", "t">>)

\* the two label tests tabulated over the labels in use
medicineRelatedLabels == { l \in Labels : isMedicineRelated(l) }

metadataFieldsOfLabel ==
  [ l \in Labels |->
      { k \in 1..Len(metadataFields) : matchesMetadataField(l, metadataFields[k]) } ]

emptyMetadata ==
  [ customerName |-> Null, customerPhone |-> Null, customerAddress |-> Null,
    billNumber |-> Null, billDate |-> Null, doctorName |-> Null ]

\* [...predictions].sort((a, b) => (b.confidence || 0) - (a.confidence || 0))
compareConfidence(a, b) == b.confidence - a.confidence

\* mutation of metadataStep: line item classes are not skipped
metadataStepWithoutSkip(md, prediction) ==
  LET className == classOrEmpty(prediction)
      hits == { k \in metadataFieldsOfLabel[className] :
                  md[metadataFields[k]] = Null }
  IN  IF hits = {} THEN md
      ELSE [ md EXCEPT ![metadataFields[CHOOSE k \in hits : \A j \in hits : k <= j]]
                         = className ]

\* mutation of metadataStep: a field that is already set is written again
metadataStepOverwriting(md, prediction) ==
  LET className == classOrEmpty(prediction)
      hits == metadataFieldsOfLabel[className]
  IN  IF className \in medicineRelatedLabels \/ hits = {} THEN md
      ELSE [ md EXCEPT ![metadataFields[CHOOSE k \in hits : \A j \in hits : k <= j]]
                         = className ]

\* mutation of metadataStep: the recognised text is written, not the label
metadataStepWritingValue(md, prediction) ==
  LET className == classOrEmpty(prediction)
      hits == { k \in metadataFieldsOfLabel[className] :
                  md[metadataFields[k]] = Null }
  IN  IF className \in medicineRelatedLabels \/ hits = {} THEN md
      ELSE [ md EXCEPT ![metadataFields[CHOOSE k \in hits : \A j \in hits : k <= j]]
                         = prediction.value ]

\* one turn of the scan of extractMetadata
metadataStep(md, prediction) ==
  LET className == classOrEmpty(prediction)
      hits == { k \in metadataFieldsOfLabel[className] :
                  md[metadataFields[k]] = Null }
  IN  IF className \in medicineRelatedLabels \/ hits = {} THEN md
      ELSE [ md EXCEPT ![metadataFields[CHOOSE k \in hits : \A j \in hits : k <= j]]
                         = className ]

RECURSIVE metadataScan(_, _, _)
metadataScan(sortedPredictions, i, md) ==
  IF i > Len(sortedPredictions) THEN md
  ELSE metadataScan(sortedPredictions, i + 1,
                    metadataStep(md, sortedPredictions[i]))

\* every result extractMetadata(preds) may have
extractMetadata(preds) ==
  { metadataScan(s, 1, emptyMetadata) :
      s \in SortOutcomes(preds,
              [ i \in DOMAIN preds |-> [ j \in DOMAIN preds |->
                  compareConfidence(preds[i], preds[j]) ] ]) }

\* mutation of filterMedicinePredictions: the metadata test comes first
filterMedicinePredictionsMetadataFirst(preds) ==
  LET keep(p) == metadataFieldsOfLabel[classOrEmpty(p)] = {}
  IN  SelectSeq(preds, keep)

filterMedicinePredictions(preds) ==
  LET keep(p) ==
        LET className == classOrEmpty(p)
        IN  \/ className \in medicineRelatedLabels
            \/ metadataFieldsOfLabel[className] = {}
  IN  SelectSeq(preds, keep)

\* mutation of validMedicines: every row is kept
validMedicinesUnfiltered(rowList) == rowList

\* medicines.filter(row => row.medName !== null)
validMedicines(rowList) ==
  LET Test(r) == r.medName # Null
  IN  SelectSeq(rowList, Test)

\* every result extractBillData(preds) may have; threw stands for the
\* exception of groupByRowCaptain, which extractBillData does not catch
extractBillData(preds) ==
  LET predictionsWithBbox == convertToBboxFormat(preds)
      medicinePredictions == filterMedicinePredictions(predictionsWithBbox)
  IN  { [ threw |-> r.threw,
          metadata |-> md,
          medicines |-> validMedicines(r.rows),
          totalMedicines |-> Len(validMedicines(r.rows)) ] :
        md \in extractMetadata(predictionsWithBbox),
        r \in groupByRowCaptain(medicinePredictions) }

(***************************************************************************)
(* The arrays of a call.  env binds each array variable to its array, and  *)
(* caller is the content of the array the caller passed, "caller".  An     *)
(* array made during the call is named by the variable it is first bound   *)
(* to; its content is local to the call.  No statement of the pipeline     *)
(* assigns a property of a Prediction: the objects written are the Rows    *)
(* and the objects convertToBboxFormat makes.                              *)
(***************************************************************************)
\* the call f(list) of the caller: the parameter is the caller's array
callerHeap(param, preds) == [ env |-> (param :> "caller"), caller |-> preds ]

\* a call with an array as argument: the parameter is that array
passArray(h, param, arg) == [ h EXCEPT !.env = (param :> h.env[arg]) @@ h.env ]

\* mutation of newArray: the variable is bound to the array read
newArrayShared(h, name, from) == passArray(h, name, from)

\* [], [...from], from.map(...), from.filter(...): name is a new array, which
\* receives elements of from
newArray(h, name, from) == [ h EXCEPT !.env = (name :> name) @@ h.env ]

\* name.push(...), name.sort(...): the array of name has the content
writeArray(h, name, content) ==
  IF h.env[name] = "caller" THEN [ h EXCEPT !.caller = content ] ELSE h

\* the same for an array variable of a loop body, or for a sort with several
\* outcomes: the array has one of the contents
writeOneOf(h, name, contents) ==
  IF h.env[name] = "caller" /\ contents # { }
    THEN { [ h EXCEPT !.caller = c ] : c \in contents }
  ELSE { h }

\* fieldPredictions after fieldPredictions.sort(...), for every row and field
sortedFieldPredictions(grps) ==
  UNION { LET cands == fieldPredictions(grps[i], fieldPriority[k])
          IN  IF skipField(fieldPriority[k]) \/ Len(cands) = 0 THEN { }
              ELSE SortOutcomes(cands,
                     [ a \in DOMAIN cands |-> [ b \in DOMAIN cands |->
                         compareCandidates(cands[a], cands[b]) ] ]) :
          i \in DOMAIN grps, k \in DOMAIN fieldPriority }

\* the arrays after groupByRowCaptain(preds) with result r
groupByRowCaptainArrays(h, preds, r) ==
  LET p == "groupByRowCaptain.predictions"
      h1 == writeArray(newArray(h, "anchors", p), "anchors",
                       partitionAnchors(preds))
      h2 == writeArray(newArray(h1, "nonAnchors", p), "nonAnchors",
                       partitionNonAnchors(preds))
      h3 == writeArray(h2, "anchors", r.anchors)
      h4 == writeArray(newArray(h3, "rows", "anchors"), "rows",
                       [ i \in DOMAIN r.anchors |-> seedRow(i) ])
      h5 == writeOneOf(newArray(h4, "group", "nonAnchors"), "group",
                       { r.groups[i] : i \in DOMAIN r.groups })
  IN  IF Len(preds) = 0
        THEN { writeArray(newArray(h, "rows", p), "rows", << >>) }
      ELSE IF Len(partitionAnchors(preds)) = 0
        THEN { writeArray(newArray(h2, "rows", p), "rows", r.rows) }
      ELSE UNION {
             { writeArray(h7, "rows", r.rows) :
                 h7 \in writeOneOf(newArray(h6, "fieldPredictions", "group"),
                                   "fieldPredictions",
                                   sortedFieldPredictions(r.groups)) } :
             h6 \in h5 }

\* the arrays after convertToBboxFormat(predictions) in extractBillData
convertArrays(h, preds) ==
  writeArray(newArray(h, "predictionsWithBbox", "extractBillData.predictions"),
             "predictionsWithBbox", convertToBboxFormat(preds))

\* the arrays after extractMetadata(predictionsWithBbox), whose sort has one
\* of the outcomes
extractMetadataArrays(h, outcomes) ==
  writeOneOf(newArray(passArray(h, "extractMetadata.predictions",
                                "predictionsWithBbox"),
                      "sortedPredictions", "extractMetadata.predictions"),
             "sortedPredictions", outcomes)

\* the arrays after the filter, the grouping with result r and the assembly
assembleArrays(h, predictionsWithBbox, r) ==
  LET medicinePredictions == filterMedicinePredictions(predictionsWithBbox)
      h1 == writeArray(newArray(h, "medicinePredictions", "predictionsWithBbox"),
                       "medicinePredictions", medicinePredictions)
      h2 == passArray(h1, "groupByRowCaptain.predictions", "medicinePredictions")
  IN  IF r.threw THEN groupByRowCaptainArrays(h2, medicinePredictions, r)
      ELSE { writeArray(newArray(h3, "validMedicines", "rows"),
                        "validMedicines", validMedicines(r.rows)) :
               h3 \in groupByRowCaptainArrays(h2, medicinePredictions, r) }

\* the orders extractMetadata may give sortedPredictions
sortByConfidence(preds) ==
  SortOutcomes(preds,
    [ i \in DOMAIN preds |-> [ j \in DOMAIN preds |->
        compareConfidence(preds[i], preds[j]) ] ])

(***************************************************************************)
(* The calls                                                               *)
(***************************************************************************)
\* a record of the detector's response; width, height and confidence are
\* optional numbers, value an optional string
Det(class, x, y, height, confidence, value) ==
  [ class |-> class, x |-> x, y |-> y, width |-> << >>, height |-> height,
    confidence |-> confidence, value |-> value ]

\* the lists of at most n records of S
RECURSIVE ListsUpTo(_, _)
ListsUpTo(S, n) ==
  IF n = 0 THEN { << >> }
  ELSE LET shorter == ListsUpTo(S, n - 1)
       IN  shorter \cup { Append(l, d) : l \in { m \in shorter : Len(m) = n - 1 }, d \in S }

\* anchors at three heights, and quantity boxes between and on them
AssignPalette ==
  { Det("Med Name", 0, y, << >>, << >>, Undefined) : y \in { 0, 6, 11 } }
  \cup { Det("Medicine 1", 0, 6, << >>, << >>, Undefined),
         Det("Medicine 2", 0, 0, << >>, << >>, Undefined) }
  \cup { Det("Quantity", 0, y, << >>, << >>, Undefined) : y \in { 3, 4, 8 } }
  \cup { Det("Quantity", 0, 0, << 6 >>, << >>, Undefined) }

\* one anchor and quantity candidates of every confidence and both columns
WinnerPalette ==
  { Det("Med Name", 0, 0, << >>, << >>, Undefined),
    Det("Amount", 0, 0, << >>, << 3 >>, Undefined) }
  \cup { Det("Quantity", x, 0, << >>, c, Undefined) :
           x \in { 0, 1 }, c \in { << >>, << 1 >>, << 2 >>, << 3 >> } }

\* candidates of every slot with and without recognised text
ValuePalette ==
  { Det("Med Name", 0, 0, << >>, << >>, v) : v \in { Undefined, "Dolo" } }
  \cup { Det(c, 0, 0, << >>, << >>, v) :
           c \in { "Quantity", "Amount", "HSN Code", "Batch Exp" },
           v \in { Undefined, "5" } }
  \cup { Det("Quantity", 0, 0, << >>, << >>, ""),
         Det("Batch Exp", 0, 0, << >>, << >>, ""),
         Det("The MedName", 0, 0, << >>, << >>, "Dolo"),
         Det("Customer Name", 0, 30, << >>, << >>, "Asha") }

\* labelled, unlabelled and unclassified records with at most one anchor label
FallbackPalette ==
  { Det(c, 0, 0, << >>, << >>, Undefined) :
      c \in { "Quantity", "qty", "  QUANTITY ", "Amount", "hsn  code",
              "The MedName", "Total", "", Undefined, "MEDICINE" } }
  \cup { Det("Quantity", 0, 0, << >>, << >>, "5") }

\* metadata labels of two confidences, line item labels, an anchor label that
\* holds "name", an unclassified label and a record without class
MetaPalette ==
  { Det("Customer Name", 0, 30, << >>, c, "Asha") : c \in { << 100 >>, << 180 >> } }
  \cup { Det(l, 0, 30, << >>, c, Undefined) :
           l \in { "Patient Name", "Doctor Name" }, c \in { << 100 >>, << 180 >> } }
  \cup { Det("Phone", 0, 30, << >>, << >>, Undefined),
         Det("Med Name", 0, 0, << >>, << >>, Undefined),
         Det("Medicine Name", 0, 0, << >>, << >>, Undefined),
         Det("Quantity", 0, 0, << >>, << 180 >>, "5"),
         Det("Unit Price", 0, 0, << >>, << >>, Undefined),
         Det("Total", 0, 0, << >>, << >>, Undefined),
         Det(Undefined, 0, 0, << >>, << >>, Undefined) }

\* a bill of one line and a customer: an anchor at y = 100, its quantity at
\* y = 102 and amount at y = 98 (confidence 0.9), the customer at y = 500
Scenario ==
  << Det("Med Name", 0, 100, << >>, << >>, Undefined),
     Det("Quantity", 0, 102, << >>, << 180 >>, "5"),
     Det("Amount", 0, 98, << >>, << 180 >>, "120"),
     Det("Customer Name", 0, 500, << >>, << >>, "Asha") >>

\* the strings of at most n characters of alphabet
RECURSIVE StringsUpTo(_, _)
StringsUpTo(alphabet, n) ==
  IF n = 0 THEN { << >> }
  ELSE LET shorter == StringsUpTo(alphabet, n - 1)
       IN  shorter \cup { << c >> \o t : c \in alphabet, t \in { u \in shorter : Len(u) = n - 1 } }

\* a capital, a small letter and two kinds of white space
Alphabet == { "M", "e", " ", "\t" }

\* no scan of extractMetadata under way
noScan == [ sortedPredictions |-> << >>, next |-> 0 ]

\* no class name under normalisation
noNorm == [ className |-> << >>, rowGrouping |-> << >>, billExtraction |-> << >> ]

\* labels of every branch of isAnchorClass and of getFieldName, with variants
\* in case and white space, and labels that fall through
ClassifyPalette ==
  { Det(l, 0, 0, << >>, << >>, Undefined) :
      l \in { "Med Name", " med  name", "medname", "Medicine Name", "MEDICINE",
              "Medicine 1", "med", "Meds", "Premed", "item", "ITEM", "items",
              "Product", "The MedName", "Batch Exp", "BatchExp", "Quantity",
              "  QUANTITY ", "qty", "QTY", "Total Qty", "HSN Code", "hsn  code",
              "hsncode", "Amount", "Price", "Unit Price", "Total",
              "Customer Name", "" } }

\* a quantity with every choice of the optional width, height and confidence,
\* an anchor without optional field and a record without class
ConvertPalette ==
  { [ Det("Quantity", 3, 2, h, c, "5") EXCEPT !.width = w ] :
      w \in { << >>, << 4 >> }, h \in { << >>, << 6 >> }, c \in { << >>, << 180 >> } }
  \cup { Det("Med Name", 0, 0, << >>, << >>, Undefined),
         Det(Undefined, 1, 1, << >>, << >>, Undefined) }

\* quantity candidates of two columns and four confidences
CandidatePalette ==
  { Det("Quantity", x, 0, << >>, c, Undefined) :
      x \in { 0, 1 }, c \in { << >>, << 2 >>, << 3 >>, << 4 >> } }

\* one anchor followed by at most MaxLen candidates of its quantity slot
CandidateLists ==
  { << Det("Med Name", 0, 0, << >>, << >>, Undefined) >> \o l :
      l \in ListsUpTo(CandidatePalette, MaxLen) }

\* at most MaxLen anchors at four heights, in any order, and one quantity
\* at a height between, above or below them
AnchorLists ==
  { l \o << Det("Quantity", 0, y, << >>, << >>, Undefined) >> :
      l \in ListsUpTo({ Det("Med Name", 0, a, << >>, << >>, Undefined) :
                          a \in { 0, 2, 5, 11 } }, MaxLen),
      y \in 0..12 }

\* the clients that call createBill at the same time
Clients == 1..MaxClients

\* the row the migration inserts into shop_details (counter DEFAULT 1)
seededShop == [ id |-> 1, bill_number_prefix |-> "FM", bill_number_counter |-> 1 ]

\* new Date().getFullYear() in createBill
year == 2025

\* String(counter).padStart(4, '0')
paddedCounter(counter) ==
  IF counter < 10 THEN "000" \o ToString(counter)
  ELSE IF counter < 100 THEN "00" \o ToString(counter)
  ELSE IF counter < 1000 THEN "0" \o ToString(counter)
  ELSE ToString(counter)

formatBillNumber(prefix, counter, y) ==
  prefix \o "-" \o ToString(y) \o "-" \o paddedCounter(counter)

\* a createBill call that has not started
idleCall == [ pc |-> "idle", prefix |-> Null, existing |-> 0, counter |-> 0 ]

InitOf(lists, strings) ==
  /\ detections \in lists
  /\ norm \in { [ noNorm EXCEPT !.className = t ] : t \in strings }
  /\ scan = noScan
  /\ pc = "start"
  /\ entry = "none"
  /\ predictions = << >>
  /\ threw = FALSE
  /\ anchors = << >>
  /\ groups = << >>
  /\ winners = << >>
  /\ rows = << >>
  /\ metadata = emptyMetadata
  /\ medicines = << >>
  /\ totalMedicines = 0
  /\ classified = << >>
  /\ shop_details = seededShop
  /\ bills = { }
  /\ calls = [ c \in Clients |-> idleCall ]
  /\ heap = callerHeap("predictions", detections)

InitWith(palette) == InitOf(ListsUpTo(palette, MaxLen), { << >> })

Init == InitWith(AssignPalette)
InitWinner == InitWith(WinnerPalette)
InitValue == InitWith(ValuePalette)
InitFallback == InitWith(FallbackPalette)
InitMeta == InitOf(ListsUpTo(MetaPalette, MaxLen) \cup { Scenario }, { << >> })
InitNormalize == InitOf({ << >> }, StringsUpTo(Alphabet, MaxText))
InitConvert == InitWith(ConvertPalette)
InitCandidates == InitOf(CandidateLists, { << >> })
InitAnchors == InitOf(AnchorLists, { << >> })
InitClassify == InitOf(ListsUpTo(ClassifyPalette, 2), { << >> })
InitBilling == InitOf({ << >> }, { << >> })

\* rows = groupByRowCaptain(convertToBboxFormat(detections))
GroupByRowCaptain ==
  /\ pc = "start"
  /\ \E r \in groupByRowCaptain(convertToBboxFormat(detections)) :
       /\ predictions' = convertToBboxFormat(detections)
       /\ threw' = r.threw
       /\ anchors' = r.anchors
       /\ groups' = r.groups
       /\ winners' = r.winners
       /\ rows' = r.rows
       /\ heap' \in groupByRowCaptainArrays(
                      callerHeap("groupByRowCaptain.predictions",
                                 convertToBboxFormat(detections)),
                      convertToBboxFormat(detections), r)
  /\ entry' = "groupByRowCaptain"
  /\ pc' = "done"
  /\ UNCHANGED << detections, metadata, medicines, totalMedicines, scan, norm >>
  /\ UNCHANGED << classified, billing >>

\* result = extractBillData(detections); an exception of groupByRowCaptain
\* leaves it through extractBillData
ExtractBillData ==
  /\ pc = "start"
  /\ LET predictionsWithBbox == convertToBboxFormat(detections)
         medicinePredictions == filterMedicinePredictions(predictionsWithBbox)
     IN  \E md \in extractMetadata(predictionsWithBbox),
            r \in groupByRowCaptain(medicinePredictions) :
           /\ predictions' = medicinePredictions
           /\ metadata' = md
           /\ threw' = r.threw
           /\ anchors' = r.anchors
           /\ groups' = r.groups
           /\ winners' = r.winners
           /\ rows' = r.rows
           /\ medicines' = validMedicines(r.rows)
           /\ totalMedicines' = Len(validMedicines(r.rows))
           /\ \E h \in extractMetadataArrays(
                          convertArrays(callerHeap("extractBillData.predictions",
                                                   detections), detections),
                          sortByConfidence(predictionsWithBbox)) :
                heap' \in assembleArrays(h, predictionsWithBbox, r)
  /\ entry' = "extractBillData"
  /\ pc' = "done"
  /\ UNCHANGED << detections, scan, norm >>
  /\ UNCHANGED << classified, billing >>

Next == GroupByRowCaptain \/ ExtractBillData

\* extractBillData one loop turn of extractMetadata at a time: the call up to
\* the sort of extractMetadata
ExtractBegin ==
  /\ pc = "start"
  /\ LET predictionsWithBbox == convertToBboxFormat(detections)
     IN  /\ predictions' = predictionsWithBbox
         /\ \E s \in SortOutcomes(predictionsWithBbox,
                     [ i \in DOMAIN predictionsWithBbox |->
                       [ j \in DOMAIN predictionsWithBbox |->
                           compareConfidence(predictionsWithBbox[i],
                                             predictionsWithBbox[j]) ] ]) :
              /\ scan' = [ sortedPredictions |-> s, next |-> 1 ]
              /\ heap' \in extractMetadataArrays(
                             convertArrays(
                               callerHeap("extractBillData.predictions",
                                          detections), detections),
                             { s })
  /\ metadata' = emptyMetadata
  /\ entry' = "extractBillData"
  /\ pc' = "scan"
  /\ UNCHANGED << detections, threw, anchors, groups, winners, rows, medicines,
                  totalMedicines, norm >>
  /\ UNCHANGED << classified, billing >>

\* one turn of for (const prediction of sortedPredictions)
ExtractMetadataTurn ==
  /\ pc = "scan"
  /\ scan.next <= Len(scan.sortedPredictions)
  /\ metadata' = metadataStep(metadata, scan.sortedPredictions[scan.next])
  /\ scan' = [ scan EXCEPT !.next = @ + 1 ]
  /\ UNCHANGED << detections, pc, entry, predictions, threw, anchors, groups,
                  winners, rows, medicines, totalMedicines, norm >>
  /\ UNCHANGED << classified, billing, heap >>

\* extractMetadata returns; the filter, the grouping and the assembly
ExtractEnd ==
  /\ pc = "scan"
  /\ scan.next > Len(scan.sortedPredictions)
  /\ LET medicinePredictions ==
           filterMedicinePredictions(convertToBboxFormat(detections))
     IN  \E r \in groupByRowCaptain(medicinePredictions) :
           /\ predictions' = medicinePredictions
           /\ threw' = r.threw
           /\ anchors' = r.anchors
           /\ groups' = r.groups
           /\ winners' = r.winners
           /\ rows' = r.rows
           /\ medicines' = validMedicines(r.rows)
           /\ totalMedicines' = Len(validMedicines(r.rows))
           /\ heap' \in assembleArrays(heap, convertToBboxFormat(detections), r)
  /\ pc' = "done"
  /\ UNCHANGED << detections, entry, metadata, scan, norm >>
  /\ UNCHANGED << classified, billing >>

NextScan == ExtractBegin \/ ExtractMetadataTurn \/ ExtractEnd

\* normalizeClassName(className), by the copy of rowGrouping.ts and by the
\* copy of billExtraction.ts
NormalizeClassName ==
  /\ pc = "start"
  /\ norm' = [ norm EXCEPT
                 !.rowGrouping = << normalizeClassName(norm.className) >>,
                 !.billExtraction = << normalizeClassNameBill(norm.className) >> ]
  /\ entry' = "normalizeClassName"
  /\ pc' = "normalized"
  /\ UNCHANGED << detections, predictions, threw, anchors, groups, winners,
                  rows, metadata, medicines, totalMedicines, scan >>
  /\ UNCHANGED << classified, billing, heap >>

\* normalizeClassName applied to its own result
NormalizeAgain ==
  /\ pc = "normalized"
  /\ norm' = [ norm EXCEPT
                 !.rowGrouping = Append(@, normalizeClassName(@[1])),
                 !.billExtraction = Append(@, normalizeClassNameBill(@[1])) ]
  /\ pc' = "done"
  /\ UNCHANGED << detections, entry, predictions, threw, anchors, groups,
                  winners, rows, metadata, medicines, totalMedicines, scan >>
  /\ UNCHANGED << classified, billing, heap >>

NextNormalize == NormalizeClassName \/ NormalizeAgain

\* isAnchorClass(label) and getFieldName(label) for every label of the list
ClassifyLabels ==
  /\ pc = "start"
  /\ classified' = [ j \in DOMAIN detections |->
                       [ anchor |-> isAnchorClass(detections[j].class),
                         field |-> getFieldName(detections[j].class) ] ]
  /\ entry' = "classify"
  /\ pc' = "done"
  /\ UNCHANGED << detections, predictions, threw, anchors, groups, winners,
                  rows, metadata, medicines, totalMedicines, scan, norm, billing, heap >>

NextClassify == ClassifyLabels

(***************************************************************************)
(* createBill, one step for each request it awaits.  The requests of       *)
(* concurrent calls reach the database in any order; a request fails here  *)
(* only when a constraint of the schema rejects it.                        *)
(* The migration inserts the row of shop_details and no code deletes it,   *)
(* so getShopDetails returns the row in every call.                        *)
(***************************************************************************)
\* the state of the extraction pipeline, which createBill does not touch
extraction ==
  << detections, pc, entry, predictions, threw, anchors, groups, winners,
     rows, metadata, medicines, totalMedicines, scan, norm, classified,
     heap >>

\* createBill: const shopDetails = await getShopDetails()
CreateBillGetShop(c) ==
  /\ calls[c].pc = "idle"
  /\ calls' = [ calls EXCEPT ![c].pc = "read",
                             ![c].prefix = shop_details.bill_number_prefix ]
  /\ UNCHANGED << shop_details, bills, extraction >>

\* incrementBillCounter: const existing = await getShopDetails()
IncrementRead(c) ==
  /\ calls[c].pc = "read"
  /\ calls' = [ calls EXCEPT ![c].pc = "update",
                             ![c].existing = shop_details.bill_number_counter ]
  /\ UNCHANGED << shop_details, bills, extraction >>

\* incrementBillCounter: the update to existing.bill_number_counter + 1 and
\* the return of existing.bill_number_counter
IncrementWrite(c) ==
  /\ calls[c].pc = "update"
  /\ shop_details' = [ shop_details EXCEPT
                         !.bill_number_counter = calls[c].existing + 1 ]
  /\ calls' = [ calls EXCEPT ![c].pc = "insert",
                             ![c].counter = calls[c].existing ]
  /\ UNCHANGED << bills, extraction >>

\* createBill: the insert into bills, which bill_number UNIQUE rejects when
\* the number is taken (createBill then returns null)
InsertBill(c) ==
  LET billNumber == formatBillNumber(calls[c].prefix, calls[c].counter, year)
  IN  /\ calls[c].pc = "insert"
      /\ IF billNumber \in bills
           THEN /\ calls' = [ calls EXCEPT ![c].pc = "failed" ]
                /\ UNCHANGED bills
           ELSE /\ calls' = [ calls EXCEPT ![c].pc = "done" ]
                /\ bills' = bills \cup { billNumber }
      /\ UNCHANGED << shop_details, extraction >>

NextBilling ==
  \E c \in Clients :
    \/ CreateBillGetShop(c)
    \/ IncrementRead(c)
    \/ IncrementWrite(c)
    \/ InsertBill(c)

Spec == Init /\ [][Next]_vars
SpecWinner == InitWinner /\ [][Next]_vars
SpecValue == InitValue /\ [][Next]_vars
SpecFallback == InitFallback /\ [][Next]_vars
SpecMeta == InitMeta /\ [][Next]_vars
SpecScan == InitMeta /\ [][NextScan]_vars
SpecNormalize == InitNormalize /\ [][NextNormalize]_vars
SpecConvert == InitConvert /\ [][Next]_vars
SpecCandidates == InitCandidates /\ [][Next]_vars
SpecAnchors == InitAnchors /\ [][Next]_vars
SpecClassify == InitClassify /\ [][NextClassify]_vars
SpecBilling == InitBilling /\ [][NextBilling]_vars

(***************************************************************************)
(* Properties                                                              *)
(***************************************************************************)
\* groupByRowCaptain has returned (predictions is the list it was given)
Returned == pc = "done" /\ ~threw

IsAnchor(p) == hasClass(p) /\ isAnchorClass(p.class)

IsNonAnchor(p) == hasClass(p) /\ ~isAnchorClass(p.class)

AnchorCount == Cardinality({ i \in DOMAIN predictions : IsAnchor(predictions[i]) })

NonAnchors == { predictions[i] : i \in { j \in DOMAIN predictions : IsNonAnchor(predictions[j]) } }

\* twice y + height/2
CenterOf(p) == 2 * p.bbox.y + p.bbox.height

Dist(p, a) == Abs(CenterOf(p) - CenterOf(a))

\* p is in the group of the i-th sorted anchor
InGroup(p, i) == \E k \in DOMAIN groups[i] : groups[i][k] = p

RowSlots == { "batchExp", "quantity", "hsnCode", "amount" }

\* C1: with at least one anchor in the input, groupByRowCaptain returns as
\* many rows as the input has detections of an anchor class
C1_RowCountIsAnchorCount ==
  (pc = "done" /\ AnchorCount >= 1) => (~threw /\ Len(rows) = AnchorCount)

C1_Witness ==
  /\ Returned
  /\ AnchorCount = 2
  /\ NonAnchors # {}
  /\ Len(rows) = 2

\* C2: the i-th returned row is the row of the i-th anchor in ascending
\* vertical centre: it is named "Medicine i" and its filled slots come from the
\* detections assigned to that anchor.  Stated for the inputs on which the
\* closing sort has one result (its comparator is consistent on the rows).
C2_RowsFollowAnchorOrder ==
  LET seeds == [ i \in 1..Len(anchors) |-> seedRow(i) ]
  IN  (Returned /\ AnchorCount >= 1
         /\ ConsistentComparator([ i \in DOMAIN seeds |-> [ j \in DOMAIN seeds |->
               compareRows(seeds[i], seeds[j], anchors) ] ]))
      => /\ Len(rows) = Len(anchors)
         /\ \A i \in 1..(Len(anchors) - 1) :
              CenterOf(anchors[i]) <= CenterOf(anchors[i + 1])
         /\ \A i \in 1..Len(rows) :
              /\ rows[i].medName = "Medicine " \o ToString(i)
              /\ \A f \in RowSlots :
                   rows[i][f] # Null =>
                     \E k \in DOMAIN groups[i] : getFieldName(groups[i][k].class) = f

\* C3: with two anchors A above B, a non anchor goes to A when its distances
\* to A and B differ by less than 5 pixels, and to the nearer one otherwise
C3_TwoAnchorTieBreak ==
  (Returned /\ AnchorCount = 2 /\ Len(anchors) = 2) =>
    \A ia, ib \in 1..2 :
      CenterOf(anchors[ia]) < CenterOf(anchors[ib]) =>
        \A p \in NonAnchors :
          LET dA == Dist(p, anchors[ia])
              dB == Dist(p, anchors[ib])
              toA == Abs(dA - dB) < 10 \/ dA < dB
          IN  /\ toA => (InGroup(p, ia) /\ ~InGroup(p, ib))
              /\ ~toA => (InGroup(p, ib) /\ ~InGroup(p, ia))

\* anchors at 0 and 6, a detection at 3: equal distances, the one above wins
C3_Witness ==
  /\ Returned
  /\ Len(anchors) = 2
  /\ CenterOf(anchors[1]) = 0
  /\ CenterOf(anchors[2]) = 12
  /\ \E p \in NonAnchors : CenterOf(p) = 6 /\ InGroup(p, 1) /\ ~InGroup(p, 2)

\* C4 as claimed: every non anchor is assigned to an anchor of minimum
\* vertical distance
C4_AssignedToNearest ==
  (Returned /\ AnchorCount >= 1) =>
    \A p \in NonAnchors : \A i \in 1..Len(anchors) :
      InGroup(p, i) => \A j \in 1..Len(anchors) : Dist(p, anchors[i]) <= Dist(p, anchors[j])

\* C4 as amended: every non anchor is assigned to an anchor whose distance is
\* less than 5 pixels above the minimum distance over all anchors
C4_AssignedWithinWindowOfNearest ==
  (Returned /\ AnchorCount >= 1) =>
    \A p \in NonAnchors :
      /\ \E i \in 1..Len(anchors) : InGroup(p, i)
      /\ \A i \in 1..Len(anchors) :
           InGroup(p, i) =>
             \A j \in 1..Len(anchors) : Dist(p, anchors[i]) - Dist(p, anchors[j]) < 10

\* anchors at 0 and 6, a detection at 4: it goes to the anchor at 0
C4_Witness ==
  /\ Returned
  /\ Len(anchors) = 2
  /\ \E p \in NonAnchors :
       /\ InGroup(p, 1)
       /\ Dist(p, anchors[1]) = 8
       /\ Dist(p, anchors[2]) = 4

\* the rows and slots with exactly two candidates
TwoCandidateSlots ==
  { << i, f >> \in (1..Len(groups)) \X RowSlots :
      Len(fieldPredictions(groups[i], f)) = 2 }

\* the winner of slot f of row i is candidate c
Wins(i, f, c) == winners[i][f] = << c >>

\* C5 as claimed: of two candidates, the left one wins when the confidences
\* differ by less than 0.01, the more confident one when they differ by 0.01
\* or more
C5_WinnerAsClaimed ==
  (Returned /\ AnchorCount >= 1) =>
    \A s \in TwoCandidateSlots :
      LET c == fieldPredictions(groups[s[1]], s[2])
      IN  \A a, b \in 1..2 :
            /\ (Abs(c[a].confidence - c[b].confidence) < 2 /\ c[a].bbox.x < c[b].bbox.x)
                 => Wins(s[1], s[2], c[a])
            /\ (c[a].confidence - c[b].confidence >= 2) => Wins(s[1], s[2], c[a])

\* C5 as amended: the left one wins when the confidences differ by at most
\* 0.01, the more confident one when they differ by more than 0.01
C5_WinnerByConfidenceThenLeftmost ==
  (Returned /\ AnchorCount >= 1) =>
    \A s \in TwoCandidateSlots :
      LET c == fieldPredictions(groups[s[1]], s[2])
      IN  \A a, b \in 1..2 :
            /\ (Abs(c[a].confidence - c[b].confidence) <= 2 /\ c[a].bbox.x < c[b].bbox.x)
                 => Wins(s[1], s[2], c[a])
            /\ (c[a].confidence - c[b].confidence > 2) => Wins(s[1], s[2], c[a])

\* confidences 0.01 apart: the left, less confident candidate wins
C5_Witness ==
  /\ Returned
  /\ \E s \in TwoCandidateSlots :
       LET c == fieldPredictions(groups[s[1]], s[2])
       IN  \E a, b \in 1..2 :
             /\ c[b].confidence - c[a].confidence = 2
             /\ c[a].bbox.x < c[b].bbox.x
             /\ Wins(s[1], s[2], c[a])

\* the placeholder of a slot whose winner has no text
SlotPlaceholder(f, class) ==
  CASE f = "quantity" -> "1"
    [] f = "amount"   -> "0"
    [] f = "hsnCode"  -> "3004"
    [] OTHER          -> class

\* the returned rows named "Medicine i"
RowsNamed(i) == { k \in DOMAIN rows : rows[k].medName = "Medicine " \o ToString(i) }

\* the winner w is the record d of the detector's response, text included
SameDetection(d, w) ==
  /\ d.class = w.class
  /\ d.value = w.value
  /\ d.x = w.bbox.x
  /\ d.y = w.bbox.y

\* the text a slot takes from its winner w: the value when w carries one (an
\* empty string counting as a value or not), the placeholder otherwise
SlotText(f, w, emptyIsValue) ==
  IF w.value # Undefined /\ (emptyIsValue \/ w.value # "") THEN w.value
  ELSE SlotPlaceholder(f, w.class)

\* every filled slot of every row holds the text of its winner w, a record
\* of the input, also when the input entered through extractBillData
SlotsHold(emptyIsValue) ==
  (Returned /\ AnchorCount >= 1) =>
    /\ entry = "extractBillData" => medicines = rows
    /\ \A i \in 1..Len(winners) : \A f \in RowSlots :
         winners[i][f] # << >> =>
           LET w == winners[i][f][1]
           IN  /\ \E j \in DOMAIN detections : SameDetection(detections[j], w)
               /\ RowsNamed(i) # {}
               /\ \A k \in RowsNamed(i) : rows[k][f] = SlotText(f, w, emptyIsValue)

\* C6 as claimed: a slot with a winner holds the winner's value when the
\* winner carries one, and the placeholder of the slot otherwise
C6_ValueOrPlaceholder ==
  SlotsHold(TRUE)

\* C6 as amended: a slot with a winner holds the winner's value when it is a
\* non-empty string, and the placeholder when it is absent or empty
C6_NonEmptyValueOrPlaceholder ==
  SlotsHold(FALSE)

\* through extractBillData: a quantity read as "5" and an amount without text
C6_Witness ==
  /\ Returned
  /\ entry = "extractBillData"
  /\ \E j \in DOMAIN detections :
       detections[j].class = "Quantity" /\ detections[j].value = "5"
  /\ \E k \in DOMAIN medicines :
       /\ medicines[k].quantity = "5"
       /\ medicines[k].amount = "0"
  /\ Len(winners) = 1
  /\ winners[1].amount # << >>
  /\ winners[1].amount[1].value = Undefined

\* the detections of row i that carry text for the medicine name: its anchor
\* and the members of its group classified as medicine name
NameCarriers(i) ==
  { p \in { anchors[i] } \cup { groups[i][k] : k \in DOMAIN groups[i] } :
      /\ getFieldName(p.class) = "medName"
      /\ p.value \notin { Undefined, "" } }

\* C7 as claimed: the name of a row is the placeholder "Medicine N" only when
\* no detection of the row carries text for the name; otherwise the text
\* replaces the placeholder
C7_PlaceholderOnlyWithoutText ==
  (Returned /\ AnchorCount >= 1) =>
    \A i \in 1..Len(anchors) :
      NameCarriers(i) # {} =>
        /\ RowsNamed(i) = {}
        /\ \E k \in DOMAIN rows : \E p \in NameCarriers(i) : rows[k].medName = p.value

\* C7 as amended: the name of the row of the N-th anchor is always
\* "Medicine N", whatever text the detections of the row carry
C7_NameIsAlwaysPlaceholder ==
  (Returned /\ AnchorCount >= 1) =>
    /\ Len(rows) = Len(anchors)
    /\ \A i \in 1..Len(anchors) : Cardinality(RowsNamed(i)) = 1

\* an anchor and a "The MedName" box of its group both read "Dolo"
C7_Witness ==
  /\ Returned
  /\ Len(anchors) = 1
  /\ anchors[1].value = "Dolo"
  /\ \E k \in DOMAIN groups[1] :
       groups[1][k].class = "The MedName" /\ groups[1][k].value = "Dolo"
  /\ rows[1].medName = "Medicine 1"

\* the raw class of the first detection, in input order, classified to slot f
FirstLabel(f) ==
  LET hits == { i \in DOMAIN predictions :
                  hasClass(predictions[i]) /\ getFieldName(predictions[i].class) = f }
  IN  IF hits = {} THEN Null
      ELSE predictions[CHOOSE i \in hits : \A j \in hits : i <= j].class

FallbackRowReturned ==
  /\ ~threw
  /\ Len(rows) = 1
  /\ \A f \in RowSlots \cup { "medName" } : rows[1][f] = FirstLabel(f)

\* C8: a non-empty input without an anchor yields exactly one row whose slots
\* hold the raw class of the first detection classified to them, else null
C8_FallbackRow ==
  (pc = "done" /\ Len(predictions) >= 1 /\ AnchorCount = 0) => FallbackRowReturned

\* the same for the inputs whose detections all have a class that is not
\* undefined: there the fallback row is as C8 says
C8_FallbackRowOfDefinedClasses ==
  (pc = "done" /\ Len(predictions) >= 1 /\ AnchorCount = 0
     /\ \A i \in DOMAIN predictions : predictions[i].class # Undefined)
  => FallbackRowReturned

\* C9: groupByRowCaptain and extractBillData never raise an exception
C9_NeverRaises == pc = "done" => ~threw

\* C10: whenever groupByRowCaptain returns, it returns what it returns for
\* the list without the detections of missing class
C10_MissingClassSkipped ==
  Returned =>
    \E r \in groupByRowCaptain(SelectSeq(predictions, hasClass)) :
      ~r.threw /\ r.rows = rows

(***************************************************************************)
(* Properties of the bill data assembly                                    *)
(***************************************************************************)
\* extractBillData has been called and has ended, by return or by exception
Extracted == pc = "done" /\ entry = "extractBillData"

\* C11: on the empty list groupByRowCaptain returns the empty list, and
\* extractBillData returns no medicines, totalMedicines 0 and six null
\* metadata fields
C11_EmptyInput ==
  (pc = "done" /\ detections = << >>) =>
    /\ ~threw
    /\ rows = << >>
    /\ Extracted =>
         /\ medicines = << >>
         /\ totalMedicines = 0
         /\ DOMAIN metadata = { metadataFields[k] : k \in 1..Len(metadataFields) }
         /\ \A f \in DOMAIN metadata : metadata[f] = Null

C11_Witness ==
  /\ Extracted
  /\ detections = << >>
  /\ ~threw
  /\ medicines = << >>

\* the detections handed to extractBillData, as extractMetadata and
\* filterMedicinePredictions see them
Converted == convertToBboxFormat(detections)

\* the labels of the medicine-only list handed to groupByRowCaptain
MedicineOnlyClasses == { predictions[i].class : i \in DOMAIN predictions }

\* the positions of the input that carry label l
Carrying(l) == { j \in DOMAIN detections : detections[j].class = l }

\* C12: no detection both fills a metadata field and is in the medicine-only
\* list handed to the grouping: no label held by a metadata field is the label
\* of a member of that list.  "Customer Name" is never in the list; every
\* "Med Name" is in it and fills no metadata field.
C12_MetadataMedicineExclusive ==
  Extracted =>
    /\ \A f \in DOMAIN metadata :
         metadata[f] # Null => metadata[f] \notin MedicineOnlyClasses
    /\ "Customer Name" \notin MedicineOnlyClasses
    /\ \A j \in Carrying("Med Name") :
         \E i \in DOMAIN predictions : predictions[i] = Converted[j]
    /\ Cardinality({ i \in DOMAIN predictions : predictions[i].class = "Med Name" })
         = Cardinality(Carrying("Med Name"))
    /\ \A f \in DOMAIN metadata : metadata[f] # "Med Name"

\* a customer name of higher confidence than the "Med Name" beside it
C12_Witness ==
  /\ Extracted
  /\ ~threw
  /\ Carrying("Med Name") # {}
  /\ Carrying("Customer Name") # {}
  /\ metadata.customerName = "Customer Name"
  /\ MedicineOnlyClasses = { "Med Name" }
  /\ Len(rows) = 1

\* the five line item substrings
LineItemSubstrings ==
  { <<"m", "e", "d", " ", "n", "a", "m", "e">>, <<"b", "a", "t", "c", "h", " ", "e", "x", "p">>,
    <<"q", "u", "a", "n", "t", "i", "t", "y">>, <<"h", "s", "n", " ", "c", "o", "d", "e">>,
    <<"a", "m", "o", "u", "n", "t">> }

\* every pattern of the metadata table
MetadataPatterns == UNION { METADATA_CLASSES[f] : f \in DOMAIN METADATA_CLASSES }

\* the normalized text of a label, the empty string for a missing label
NormalizedLabel(l) ==
  IF l = Undefined THEN << >> ELSE normalizeClassNameBill(Chars[l])

\* the labels that hold a line item substring, and those that hold a pattern
\* of the metadata table
LineItemLabels ==
  { l \in Labels \cup { Undefined } :
      \E sub \in LineItemSubstrings : Includes(NormalizedLabel(l), sub) }

MetadataLabels ==
  { l \in Labels \cup { Undefined } :
      \E pattern \in MetadataPatterns : Includes(NormalizedLabel(l), pattern) }

\* C13: the medicine-only list is the input list, in input order, without the
\* detections whose normalized label holds a pattern of the metadata table
\* and none of the five line item substrings; a detection of a label that
\* holds no metadata pattern is never dropped
C13_FilterKeepsLineItemsAndUnknown ==
  Extracted =>
    LET Kept(p) == p.class \in LineItemLabels \/ p.class \notin MetadataLabels
    IN  /\ predictions = SelectSeq(Converted, Kept)
        /\ \A j \in DOMAIN Converted :
             Converted[j].class \notin MetadataLabels =>
               \E i \in DOMAIN predictions : predictions[i] = Converted[j]

\* an unclassified label, a metadata label and "Med Name", in this order
C13_Witness ==
  /\ Extracted
  /\ [ j \in DOMAIN detections |-> detections[j].class ] = << "Total", "Phone", "Med Name" >>
  /\ [ i \in DOMAIN predictions |-> predictions[i].class ] = << "Total", "Med Name" >>

\* C14: in every result of extractBillData totalMedicines is the length of
\* medicines and every row of medicines has a name; when the medicine-only
\* list holds an anchor, medicines is the list the grouping returned
C14_MedicinesAreNamedRows ==
  (Extracted /\ ~threw) =>
    /\ totalMedicines = Len(medicines)
    /\ \A i \in DOMAIN medicines : medicines[i].medName # Null
    /\ AnchorCount >= 1 => medicines = rows

\* two anchors and a quantity: both rows of the grouping are delivered
C14_Witness ==
  /\ Extracted
  /\ ~threw
  /\ AnchorCount = 2
  /\ NonAnchors # {}
  /\ Len(rows) = 2
  /\ medicines = rows
  /\ totalMedicines = 2

\* the input holds no detection of an anchor class
NoAnchorInInput ==
  \A j \in DOMAIN Converted : ~IsAnchor(Converted[j])

\* C15: for every non empty input without an anchor, extractBillData returns
\* (no exception) and its medicines are the single fallback row
C15_ZeroAnchorsDeliverFallbackRow ==
  (Extracted /\ detections # << >> /\ NoAnchorInInput) =>
    /\ ~threw
    /\ Len(rows) = 1
    /\ medicines = rows

\* C16: in every step of extractBillData a metadata field that is set keeps
\* its value, and a step (one detection of the scan) sets at most one field
C16_FieldsWrittenOnce ==
  [][ /\ \A f \in DOMAIN metadata :
           metadata[f] # Null => metadata'[f] = metadata[f]
      /\ Cardinality({ f \in DOMAIN metadata : metadata'[f] # metadata[f] }) <= 1
    ]_vars

\* "Doctor Name", which holds patterns of two fields, has filled customerName
\* only, and the "Customer Name" scanned after it has been passed over
C16_Witness ==
  /\ pc = "scan"
  /\ scan.next = 3
  /\ scan.sortedPredictions[1].class = "Doctor Name"
  /\ scan.sortedPredictions[2].class = "Customer Name"
  /\ metadata = [ emptyMetadata EXCEPT !.customerName = "Doctor Name" ]

\* for each metadata field, the labels whose normalized text holds one of the
\* field's patterns
LabelsOfField ==
  [ f \in DOMAIN METADATA_CLASSES |->
      { l \in Labels \cup { Undefined } :
          \E pattern \in METADATA_CLASSES[f] : Includes(NormalizedLabel(l), pattern) } ]

\* C17: every metadata field that extractBillData returns set holds the class
\* label of an input detection whose normalized label holds a pattern of that
\* field and no line item substring; on the bill of one line and a customer
\* the result is one row "Medicine 1" with quantity "5" and amount "120", and
\* customerName = "Customer Name"
C17_MetadataHoldsMatchingLabel ==
  (Extracted /\ ~threw) =>
    /\ \A f \in DOMAIN metadata :
         metadata[f] # Null =>
           \E j \in DOMAIN detections :
             /\ detections[j].class = metadata[f]
             /\ detections[j].class \in LabelsOfField[f]
             /\ detections[j].class \notin LineItemLabels
    /\ detections = Scenario =>
         /\ medicines = << [ medName |-> "Medicine 1", batchExp |-> Null,
                             quantity |-> "5", hsnCode |-> Null, amount |-> "120" ] >>
         /\ totalMedicines = 1
         /\ metadata = [ emptyMetadata EXCEPT !.customerName = "Customer Name" ]

C17_Witness ==
  /\ Extracted
  /\ ~threw
  /\ detections = Scenario
  /\ Len(medicines) = 1
  /\ metadata.customerName = "Customer Name"

\* the input positions whose label holds a pattern of field f and no line
\* item substring
CandidatesOf(f) ==
  { j \in DOMAIN Converted :
      /\ Converted[j].class \in LabelsOfField[f]
      /\ Converted[j].class \notin LineItemLabels }

\* field f holds the label of a candidate of greatest confidence
HoldsBestCandidate(f) ==
  /\ metadata[f] # Null
  /\ \E j \in CandidatesOf(f) :
       /\ Converted[j].class = metadata[f]
       /\ \A k \in CandidatesOf(f) : Converted[k].confidence <= Converted[j].confidence

\* C18: every metadata field with a candidate in the input is set in the
\* result, to the label of a candidate of greatest confidence
C18_BestCandidateFillsField ==
  (Extracted /\ ~threw) =>
    \A f \in DOMAIN metadata : CandidatesOf(f) # {} => HoldsBestCandidate(f)

\* C19: no metadata field holds a label that isAnchorClass accepts or that
\* getFieldName maps to a row slot
C19_NoMedicineLabelInMetadata ==
  Extracted =>
    \A f \in DOMAIN metadata :
      metadata[f] # Null =>
        /\ metadata[f] \notin anchorLabels
        /\ fieldOfLabel[metadata[f]] = Null

(***************************************************************************)
(* Properties of the class normaliser                                      *)
(***************************************************************************)
\* C20: normalizeClassName returns a string for every string, the empty one
\* for the empty one; applied to its own result it returns that result; the
\* copy of rowGrouping.ts and the copy of billExtraction.ts return the same
C20_NormalizeIdempotent ==
  /\ pc \in { "normalized", "done" } =>
       /\ norm.rowGrouping[1] \in StringsUpTo({ "m", "e", " " }, Len(norm.className))
       /\ norm.billExtraction[1] = norm.rowGrouping[1]
       /\ norm.className = << >> => norm.rowGrouping[1] = << >>
  /\ pc = "done" =>
       /\ norm.rowGrouping[2] = norm.rowGrouping[1]
       /\ norm.billExtraction[2] = norm.billExtraction[1]

\* " M \te" becomes "m e", and "m e" stays "m e"
C20_Witness ==
  /\ pc = "done"
  /\ norm.className = << " ", "M", " ", "\t", "e" >>
  /\ norm.rowGrouping = << << "m", " ", "e" >>, << "m", " ", "e" >> >>
  /\ norm.billExtraction = norm.rowGrouping

(***************************************************************************)
(* Properties of the anchor selector and the field classifier             *)
(***************************************************************************)
\* the classifiers have been applied to the labels of detections
Classified == pc = "done" /\ entry = "classify"

\* the normalized text of the label of the j-th detection
NormalizedAt(j) == normalizeClassName(Chars[detections[j].class])

AnchorSynonyms ==
  { <<"m", "e", "d", " ", "n", "a", "m", "e">>, <<"m", "e", "d", "n", "a", "m", "e">>,
    <<"m", "e", "d", "i", "c", "i", "n", "e", " ", "n", "a", "m", "e">>, <<"m", "e", "d", "i", "c", "i", "n", "e">>,
    <<"m", "e", "d">>, <<"i", "t", "e", "m">>, <<"p", "r", "o", "d", "u", "c", "t">> }

\* C21: isAnchorClass holds exactly of the labels whose normalized text is
\* one of the seven synonyms, or holds "med name" or "medicine", or starts
\* with "med"; two labels of equal normalized text get the same answer
C21_AnchorExactlyWhen ==
  Classified =>
    /\ \A j \in DOMAIN detections :
         classified[j].anchor <=>
           \/ NormalizedAt(j) \in AnchorSynonyms
           \/ Includes(NormalizedAt(j), <<"m", "e", "d", " ", "n", "a", "m", "e">>)
           \/ Includes(NormalizedAt(j), <<"m", "e", "d", "i", "c", "i", "n", "e">>)
           \/ StartsWith(NormalizedAt(j), <<"m", "e", "d">>)
    /\ \A j, k \in DOMAIN detections :
         NormalizedAt(j) = NormalizedAt(k) => classified[j].anchor = classified[k].anchor

\* "ITEM" is an anchor like "item"; "items" is not
C21_Witness ==
  /\ Classified
  /\ [ j \in DOMAIN detections |-> detections[j].class ] = << "ITEM", "items" >>
  /\ [ j \in DOMAIN classified |-> classified[j].anchor ] = << TRUE, FALSE >>

\* the normalized text n holds one of the substrings subs
HoldsOneOf(n, subs) == \E sub \in subs : Includes(n, sub)

NameSubstrings == { <<"m", "e", "d", " ", "n", "a", "m", "e">>, <<"m", "e", "d", "n", "a", "m", "e">>, <<"m", "e", "d", "i", "c", "i", "n", "e", " ", "n", "a", "m", "e">> }

BatchSubstrings == { <<"b", "a", "t", "c", "h", " ", "e", "x", "p">>, <<"b", "a", "t", "c", "h", "e", "x", "p">> }

QuantitySubstrings == { <<"q", "u", "a", "n", "t", "i", "t", "y">>, <<"q", "t", "y">> }

HsnSubstrings == { <<"h", "s", "n", " ", "c", "o", "d", "e">>, <<"h", "s", "n", "c", "o", "d", "e">> }

AmountSubstrings == { <<"a", "m", "o", "u", "n", "t">>, <<"p", "r", "i", "c", "e">> }

\* C22: a label whose normalized text holds "qty" and no name or batch
\* substring classifies to quantity; one that holds "price" and no substring
\* of the four earlier concepts classifies to amount; one that holds no
\* substring of the five concepts classifies to null
C22_FallbackIsContainment ==
  Classified =>
    \A j \in DOMAIN detections :
      LET n == NormalizedAt(j)
          name == HoldsOneOf(n, NameSubstrings)
          batch == HoldsOneOf(n, BatchSubstrings)
          quantity == HoldsOneOf(n, QuantitySubstrings)
          hsn == HoldsOneOf(n, HsnSubstrings)
          amount == HoldsOneOf(n, AmountSubstrings)
      IN  /\ (~name /\ ~batch /\ Includes(n, <<"q", "t", "y">>))
               => classified[j].field = "quantity"
          /\ (~name /\ ~batch /\ ~quantity /\ ~hsn /\ Includes(n, <<"p", "r", "i", "c", "e">>))
               => classified[j].field = "amount"
          /\ (~name /\ ~batch /\ ~quantity /\ ~hsn /\ ~amount)
               => classified[j].field = Null

(***************************************************************************)
(* Properties of the conversion                                            *)
(***************************************************************************)
\* groupByRowCaptain(convertToBboxFormat(detections)) has ended; predictions
\* is the list the conversion returned
ConvertedAndGrouped == pc = "done" /\ entry = "groupByRowCaptain"

\* C24: convertToBboxFormat returns one record for each input record, in the
\* input order, with the same class, x, y and value, and with the width, the
\* height and the confidence of the input where it has one and 0 where not
C24_ConvertIsLosslessReshape ==
  ConvertedAndGrouped =>
    /\ Len(predictions) = Len(detections)
    /\ \A j \in DOMAIN detections :
         LET d == detections[j]
             p == predictions[j]
         IN  /\ p.class = d.class
             /\ p.bbox.x = d.x
             /\ p.bbox.y = d.y
             /\ p.value = d.value
             /\ IF d.width = << >> THEN p.bbox.width = 0 ELSE << p.bbox.width >> = d.width
             /\ IF d.height = << >> THEN p.bbox.height = 0 ELSE << p.bbox.height >> = d.height
             /\ IF d.confidence = << >> THEN p.confidence = 0
                                        ELSE << p.confidence >> = d.confidence

\* a record with width only before a record with height and confidence only
C24_Witness ==
  /\ ConvertedAndGrouped
  /\ Len(detections) = 2
  /\ detections[1].width = << 4 >> /\ detections[1].height = << >>
  /\ detections[2].width = << >> /\ detections[2].height = << 6 >>
  /\ detections[2].confidence = << 180 >>
  /\ predictions[1].bbox = [ x |-> 3, y |-> 2, width |-> 4, height |-> 0 ]
  /\ predictions[2].bbox = [ x |-> 3, y |-> 2, width |-> 0, height |-> 6 ]
  /\ predictions[2].confidence = 180

(***************************************************************************)
(* Properties of the row filling, from three candidates on                 *)
(***************************************************************************)
\* C25: the winner of a slot with candidates has a confidence at most 0.01
\* below the greatest confidence of the slot's candidates
C25_WinnerWithinWindowOfBest ==
  (Returned /\ AnchorCount >= 1) =>
    \A i \in 1..Len(groups) : \A f \in RowSlots :
      LET c == fieldPredictions(groups[i], f)
      IN  Len(c) >= 1 =>
            \E w \in DOMAIN c :
              /\ Wins(i, f, c[w])
              /\ \A k \in DOMAIN c : c[k].confidence - c[w].confidence <= ConfWindow

(***************************************************************************)
(* Properties of the grouping as a whole                                   *)
(***************************************************************************)
\* a non anchor detection that getFieldName maps to null
Unclassified(p) == IsNonAnchor(p) /\ fieldOfLabel[p.class] = Null

\* the list handed to groupByRowCaptain without its unclassified detections
WithoutUnclassified ==
  LET Keep(p) == ~Unclassified(p)
  IN  SelectSeq(predictions, Keep)

\* the row lists groupByRowCaptain(preds) may return
RowOutcomes(preds) == { r.rows : r \in { g \in groupByRowCaptain(preds) : ~g.threw } }

\* some detection assigned to the i-th anchor is classified to slot f
GroupHolds(i, f) == \E k \in DOMAIN groups[i] : fieldOfLabel[groups[i][k].class] = f

\* C26 as claimed: without the unclassified detections the same rows are
\* returned, and every slot of a row, the name included, is set exactly when
\* the anchor of the row or a detection assigned to it is classified to the
\* slot
C26_SlotSetExactlyWhenClassified ==
  (Returned /\ AnchorCount >= 1) =>
    /\ RowOutcomes(WithoutUnclassified) = RowOutcomes(predictions)
    /\ \A i \in 1..Len(groups) : \A k \in RowsNamed(i) :
         \A f \in RowSlots \cup { "medName" } :
           rows[k][f] # Null <=> (GroupHolds(i, f) \/ fieldOfLabel[anchors[i].class] = f)

\* C26 as amended: without the unclassified detections the same rows are
\* returned; a slot other than the name is set exactly when a detection
\* assigned to the row's anchor is classified to it; the name is always set
C26_UnclassifiedIgnored ==
  (Returned /\ AnchorCount >= 1) =>
    /\ RowOutcomes(WithoutUnclassified) = RowOutcomes(predictions)
    /\ \A i \in 1..Len(groups) :
         /\ RowsNamed(i) # {}
         /\ \A k \in RowsNamed(i) :
              /\ rows[k].medName # Null
              /\ \A f \in RowSlots : rows[k][f] # Null <=> GroupHolds(i, f)

\* an anchor, an unclassified "Total" and a quantity: only quantity is set
C26_Witness ==
  /\ Returned
  /\ AnchorCount = 1
  /\ \E j \in DOMAIN predictions : Unclassified(predictions[j])
  /\ Len(WithoutUnclassified) = 2
  /\ Len(rows) = 1
  /\ rows[1].quantity # Null
  /\ rows[1].amount = Null

\* the least distance of p to an anchor
MinDist(p) ==
  CHOOSE d \in { Dist(p, anchors[j]) : j \in 1..Len(anchors) } :
    \A j \in 1..Len(anchors) : d <= Dist(p, anchors[j])

\* C27: the anchors are scanned in ascending vertical centre; every classed
\* non anchor is assigned to exactly one anchor, whose distance is less than
\* 5 pixels above the least distance and whose centre is not below the centre
\* of any anchor of least distance
C27_AssignmentErrsUpwardByLessThanWindow ==
  (Returned /\ AnchorCount >= 1) =>
    /\ \A i \in 1..(Len(anchors) - 1) : CenterOf(anchors[i]) <= CenterOf(anchors[i + 1])
    /\ \A p \in NonAnchors :
         /\ Cardinality({ i \in 1..Len(anchors) : InGroup(p, i) }) = 1
         /\ \A i \in 1..Len(anchors) :
              InGroup(p, i) =>
                /\ Dist(p, anchors[i]) - MinDist(p) < 2 * TieWindow
                /\ \A j \in 1..Len(anchors) :
                     Dist(p, anchors[j]) = MinDist(p) =>
                       CenterOf(anchors[i]) <= CenterOf(anchors[j])

\* anchors at 0, 5 and 11 and a quantity at 4: it goes to the anchor at 0,
\* 3 pixels farther than the nearest anchor, which is below
C27_Witness ==
  /\ Returned
  /\ Len(anchors) = 3
  /\ \E p \in NonAnchors :
       /\ InGroup(p, 1)
       /\ Dist(p, anchors[1]) = 8
       /\ Dist(p, anchors[2]) = 2
       /\ MinDist(p) = 2

(***************************************************************************)
(* Properties of the pipeline as a function of its input                   *)
(***************************************************************************)
\* the detection lists that hold the detections of the input in another order
Reorderings ==
  { [ i \in DOMAIN detections |-> detections[perm[i]] ] :
      perm \in Perms(Len(detections)) }

\* C28: extractBillData returns the medicines and the metadata it returned
\* for the input on every reordering of the input
C28_OrderOfInputIrrelevant ==
  (Extracted /\ ~threw) =>
    \A reordered \in Reorderings :
      \A r \in extractBillData(reordered) :
        /\ ~r.threw
        /\ r.medicines = medicines
        /\ r.metadata = metadata

\* the detections of the raw input that isAnchorClass accepts
RawAnchors ==
  { j \in DOMAIN detections : detections[j].class \in anchorLabels }

\* C29: totalMedicines returned by extractBillData is at least the number of
\* anchors of the raw input, and is that number when there is an anchor
C29_NoAnchorLost ==
  (Extracted /\ ~threw) =>
    /\ totalMedicines >= Cardinality(RawAnchors)
    /\ RawAnchors # { } => totalMedicines = Cardinality(RawAnchors)

(***************************************************************************)
(* Properties of the bill counter                                          *)
(***************************************************************************)
\* the createBill calls to which incrementBillCounter has returned
Counted == { c \in Clients : calls[c].pc \in { "insert", "done", "failed" } }

\* the createBill calls that have returned
ReturnedCalls == { c \in Clients : calls[c].pc \in { "done", "failed" } }

\* C30: concurrent createBill calls obtain pairwise distinct counters, and
\* when n calls have returned and none is running the stored
\* bill_number_counter has grown by n
C30_CountersNeverHandedOutTwice ==
  /\ \A c, d \in Counted : c # d => calls[c].counter # calls[d].counter
  /\ (\A c \in Clients : calls[c].pc \in { "idle", "done", "failed" }) =>
       shop_details.bill_number_counter
         = seededShop.bill_number_counter + Cardinality(ReturnedCalls)

(***************************************************************************)
(* Properties of the arrays                                                *)
(***************************************************************************)
\* C23: when groupByRowCaptain or extractBillData has returned, the array the
\* caller passed holds the detections it held before the call, in the same
\* order and with the same fields
C23_InputNotMutated ==
  /\ (entry = "groupByRowCaptain" /\ pc = "done") => heap.caller = predictions
  /\ (entry = "extractBillData" /\ pc \in { "scan", "done" }) =>
       heap.caller = detections

\* extractBillData has returned, its anchors.sort has changed the order of
\* two anchors or more, and the caller's array is as it was
C23_Witness ==
  /\ Extracted
  /\ ~threw
  /\ Len(anchors) >= 2
  /\ anchors # partitionAnchors(predictions)
  /\ heap.caller = detections

=============================================================================
